---- MODULE Spec2Model ----
(***************************************************************************)
(* Model of Aero-Coffe:                                                    *)
(*   take_images.py : read_gps / parse_nmea_coordinate (serial GPS fix),   *)
(*                    to_dms / add_gps_to_image /                          *)
(*                    read_existing_gps_from_image (EXIF GPS round trip)   *)
(*   main.py        : GPSDetectionHeatmap (per-image detection records and *)
(*                    the weighted-point lists of the two heatmaps)        *)
(* Three specifications share the variables: SpecGps, SpecDms, SpecHeat.   *)
(***************************************************************************)
EXTENDS Integers, Sequences, FiniteSets, TLC

VARIABLES
    \* ---- read_gps (take_images.py) ----
    state,      \* position of read_gps: Idle, Polling, Fixed, TimedOut, DeviceError, UnexpectedError
    ser_open,   \* TRUE while the serial connection `ser` is open
    attempts,   \* local `attempts`
    line,       \* local `line`, held as its comma-separated fields (line.split(','))
    reads,      \* number of lines ser.readline() has returned so far
    gps_result, \* value returned by read_gps: None or <<lat, lon>>
    \* ---- EXIF round trip (take_images.py) ----
    dms_pc,     \* "input", "written", "read"
    in_coord,   \* <<lat, lon>> handed to add_gps_to_image
    exif_gps,   \* the GPS IFD written into the image
    out_coord,  \* what read_existing_gps_from_image returns
    \* ---- GPSDetectionHeatmap (main.py) ----
    detection_data, \* self.detection_data
    image_files,    \* local `image_files` of the last process_image_folder call
    heat_data,      \* local `heat_data` of the last create_*_heatmap call
    markers,        \* indices of detection_data given a CircleMarker by that call
    last_op         \* the last operation performed and its argument

gpsVars  == <<state, ser_open, attempts, line, reads, gps_result>>
dmsVars  == <<dms_pc, in_coord, exif_gps, out_coord>>
heatVars == <<detection_data, image_files, heat_data, markers, last_op>>
vars     == <<gpsVars, dmsVars, heatVars>>

None == <<>>

(***************************************************************************)
(* take_images.py : read_gps                                               *)
(***************************************************************************)
max_attempts == 50

\* Field values a sentence can carry.  Coordinates are NMEA DDMM.MMM strings.
Qualities == {"", "0", "1", "2", "x"}
LatStrs   == {"", "4807.038", "abc"}
LatDirs   == {"", "N", "S"}
LonStrs   == {"", "01131.000", "abc"}
LonDirs   == {"", "E", "W"}

\* Lines the device can deliver, as the list line.split(',') yields.
GgaLines ==
    { <<"$GPGGA", "123519", la, ld, lo, lod, q>> :
        la \in LatStrs, ld \in LatDirs, lo \in LonStrs, lod \in LonDirs, q \in Qualities }
      \cup
    { <<"$GNGGA", "123519", "4807.038", ld, "01131.000", "W", q>> :
        ld \in {"N", "S"}, q \in {"0", "1", "x"} }
ShortLines == { <<"$GPGGA", "123519", "4807.038", "N">>, <<"$GNGGA">> }
OtherLines == { <<"">>, <<"$GPRMC", "123519", "A", "4807.038", "N", "01131.000", "E">> }
Lines == GgaLines \cup ShortLines \cup OtherLines

\* parts[i] with Python's 0-based index
Part(parts, i) == parts[i + 1]

\* line.startswith('$GPGGA') or line.startswith('$GNGGA')
Recognized(l) == Part(l, 0) \in {"$GPGGA", "$GNGGA"}

\* int(s): the strings for which int() returns, and what it returns
IsInt(s) == s \in {"0", "1", "2"}
IntVal(s) == CASE s = "0" -> 0 [] s = "1" -> 1 [] s = "2" -> 2

\* float(s): the strings for which float() returns, and the value in
\* thousandths of a minute-digit unit (DDMM.MMM * 1000)
IsFloat(s) == s \in {"4807.038", "01131.000"}
FloatVal(s) == CASE s = "4807.038" -> 4807038 [] s = "01131.000" -> 1131000

\* One degree is DegUnit result units (thousandths of a minute).
DegUnit == 60000

\* parse_nmea_coordinate for a non-empty numeric coord_str: both branches of
\* the width test compute degrees = coord // 100 and minutes = coord % 100.
parse_nmea_coordinate(coord_str, direction) ==
    LET coord_float == FloatVal(coord_str)
        degrees == coord_float \div 100000
        minutes == coord_float % 100000
        decimal_degrees == degrees * DegUnit + minutes
    IN  IF direction \in {"S", "W"} THEN -decimal_degrees ELSE decimal_degrees

\* int(parts[6]) >= 0 : a fix of quality 0 would be accepted
QualityNonNegative(q) == IntVal(q) >= 0

\* int(parts[6]) > 0
QualityPositive(q) == IntVal(q) > 0

\* What one pass of the loop body does with a line that was read.
\* Gives the kind of exit from the body and the coordinate, if any.
LoopBody(l) ==
    IF ~Recognized(l) THEN [exit |-> "next", coord |-> None]
    ELSE IF ~(Len(l) >= 7 /\ Part(l, 6) # "") THEN [exit |-> "next", coord |-> None]
    ELSE IF ~IsInt(Part(l, 6)) THEN [exit |-> "raise", coord |-> None] \* ValueError outside the inner try
    ELSE IF ~QualityPositive(Part(l, 6)) THEN [exit |-> "next", coord |-> None]
    ELSE LET lat_str == Part(l, 2)
             lat_dir == Part(l, 3)
             lon_str == Part(l, 4)
             lon_dir == Part(l, 5)
         IN  IF ~(lat_str # "" /\ lon_str # "" /\ lat_dir # "" /\ lon_dir # "")
                 THEN [exit |-> "next", coord |-> None]
             ELSE IF ~IsFloat(lat_str) \/ ~IsFloat(lon_str)
                 THEN [exit |-> "next", coord |-> None]  \* ValueError caught by the inner except
             ELSE [exit |-> "return",
                   coord |-> <<parse_nmea_coordinate(lat_str, lat_dir),
                               parse_nmea_coordinate(lon_str, lon_dir)>>]

GpsInit ==
    /\ state = "Idle"
    /\ ser_open = FALSE
    /\ attempts = 0
    /\ line = None
    /\ reads = 0
    /\ gps_result = None

\* serial.Serial(...) succeeds
OpenSerial ==
    /\ state = "Idle"
    /\ state' = "Polling"
    /\ ser_open' = TRUE
    /\ attempts' = 0
    /\ UNCHANGED <<line, reads, gps_result>>

\* serial.Serial(...) raises SerialException
OpenSerialFails ==
    /\ state = "Idle"
    /\ state' = "DeviceError"
    /\ gps_result' = None
    /\ UNCHANGED <<ser_open, attempts, line, reads>>

\* one iteration of the while loop, the line l having been read
ReadLine(l) ==
    /\ state = "Polling"
    /\ attempts < max_attempts
    /\ line' = l
    /\ reads' = reads + 1
    /\ LET r == LoopBody(l) IN
         CASE r.exit = "return" ->
                /\ ser_open' = FALSE
                /\ state' = "Fixed"
                /\ gps_result' = r.coord
                /\ UNCHANGED attempts
           [] r.exit = "raise" ->
                /\ state' = "UnexpectedError"
                /\ gps_result' = None
                /\ UNCHANGED <<ser_open, attempts>>
           [] r.exit = "next" ->
                /\ attempts' = attempts + 1
                /\ UNCHANGED <<state, ser_open, gps_result>>

\* ser.readline() raises SerialException
ReadLineFails ==
    /\ state = "Polling"
    /\ attempts < max_attempts
    /\ state' = "DeviceError"
    /\ gps_result' = None
    /\ UNCHANGED <<ser_open, attempts, line, reads>>

\* the while condition fails
Timeout ==
    /\ state = "Polling"
    /\ ~(attempts < max_attempts)
    /\ ser_open' = FALSE
    /\ state' = "TimedOut"
    /\ gps_result' = None
    /\ UNCHANGED <<attempts, line, reads>>

(***************************************************************************)
(* Idle values of the parts a specification does not exercise              *)
(***************************************************************************)
DmsIdle ==
    /\ dms_pc = "idle"
    /\ in_coord = None
    /\ exif_gps = None
    /\ out_coord = None

HeatIdle ==
    /\ detection_data = <<>>
    /\ image_files = <<>>
    /\ heat_data = <<>>
    /\ markers = <<>>
    /\ last_op = <<"idle">>

GpsIdle ==
    /\ state = "Off"
    /\ ser_open = FALSE
    /\ attempts = 0
    /\ line = None
    /\ reads = 0
    /\ gps_result = None

(***************************************************************************)
(* Specification of read_gps                                               *)
(***************************************************************************)
InitGps == GpsInit /\ DmsIdle /\ HeatIdle

NextGps ==
    \/ OpenSerial /\ UNCHANGED <<dmsVars, heatVars>>
    \/ OpenSerialFails /\ UNCHANGED <<dmsVars, heatVars>>
    \/ (\E l \in Lines : ReadLine(l)) /\ UNCHANGED <<dmsVars, heatVars>>
    \/ ReadLineFails /\ UNCHANGED <<dmsVars, heatVars>>
    \/ Timeout /\ UNCHANGED <<dmsVars, heatVars>>

SpecGps == InitGps /\ [][NextGps]_vars

(***************************************************************************)
(* Properties of read_gps                                                  *)
(***************************************************************************)
\* Decimal degrees (in 1/60000 degree) of the NMEA strings, from the NMEA
\* layout: "4807.038" is 48 deg 07.038 min, "01131.000" is 11 deg 31.000 min.
NmeaDegrees == [s \in {"4807.038", "01131.000"} |->
                   IF s = "4807.038" THEN 48 * 60000 + 7038 ELSE 11 * 60000 + 31000]
NumericStr(s) == s \in DOMAIN NmeaDegrees
Hemisphere(v, h) == IF h \in {"S", "W"} THEN -v ELSE v
ExpectedFix(l) ==
    IF Len(l) >= 7 /\ NumericStr(l[3]) /\ NumericStr(l[5])
    THEN <<Hemisphere(NmeaDegrees[l[3]], l[4]), Hemisphere(NmeaDegrees[l[5]], l[6])>>
    ELSE None

IsGga(l) == Len(l) >= 7 /\ l[1] \in {"$GPGGA", "$GNGGA"}
FourNonEmpty(l) == l[3] # "" /\ l[4] # "" /\ l[5] # "" /\ l[6] # ""
Terminal == {"Fixed", "TimedOut", "DeviceError", "UnexpectedError"}

\* C1 as stated: the last line read, if a recognized sentence with quality
\* "0", has not produced Fixed; if it has quality "1" and its four
\* coordinate fields are non-empty it has produced Fixed with the coordinate
\* of that sentence.
C1_Original ==
    line # None =>
      /\ (IsGga(line) /\ line[7] = "0") => state # "Fixed"
      /\ (IsGga(line) /\ line[7] = "1" /\ FourNonEmpty(line))
            => (state = "Fixed" /\ gps_result = ExpectedFix(line))

\* C1 amended: a recognized sentence with quality "0" never produces Fixed;
\* a recognized sentence with quality "1" whose four coordinate fields are
\* non-empty and whose latitude and longitude values are numeric produces
\* Fixed, and the coordinate returned on Fixed is the one of the sentence
\* read last.
C1_FixValidation ==
    line # None =>
      /\ (IsGga(line) /\ line[7] = "0") => state # "Fixed"
      /\ (IsGga(line) /\ line[7] = "1" /\ FourNonEmpty(line)
             /\ NumericStr(line[3]) /\ NumericStr(line[5]))
            => (state = "Fixed" /\ gps_result = ExpectedFix(line))
      /\ state = "Fixed" => (gps_result # None /\ gps_result = ExpectedFix(line))

\* a fix of quality "1" in the southern and western hemispheres, after
\* earlier lines were read and passed over
C1_Witness ==
    /\ state = "Fixed"
    /\ attempts > 0
    /\ line[7] = "1"
    /\ line[4] = "S" /\ line[6] = "W"
    /\ gps_result = <<-(48 * 60000 + 7038), -(11 * 60000 + 31000)>>

\* A parsing failure: a recognized sentence whose quality field is not an
\* integer, or (quality positive, fields complete) whose latitude or
\* longitude value is not numeric.
ParseFailure(l) ==
    /\ IsGga(l)
    /\ \/ (l[7] # "" /\ l[7] \notin {"0", "1", "2"})
       \/ (l[7] \in {"1", "2"} /\ FourNonEmpty(l)
             /\ (~NumericStr(l[3]) \/ ~NumericStr(l[5])))

\* C8: a line that fails to parse is a no-op for its attempt: polling goes
\* on and the attempt counter advances by one.
C8_ParseFailureNoOp ==
    [][(reads' = reads + 1 /\ ParseFailure(line'))
          => (state' = "Polling" /\ attempts' = attempts + 1)]_vars

\* C9: once read_gps has returned, the serial connection is closed.
C9_ClosedOnReturn == state \in Terminal => ser_open = FALSE

\* C10: every line read that is not a fix advances the attempt counter by
\* one, at most 50 lines are read, and without a fix among the lines read
\* read_gps ends as TimedOut after exactly 50 attempts.
C10_BoundedPolling ==
    /\ reads <= max_attempts
    /\ state # "Fixed" => attempts = reads
    /\ (state \in Terminal \ {"DeviceError", "Fixed"})
          => (state = "TimedOut" /\ attempts = max_attempts /\ gps_result = None)

(***************************************************************************)
(* take_images.py : to_dms, add_gps_to_image, read_existing_gps_from_image *)
(*                                                                         *)
(* A decimal coordinate is an integer number of units; one milli-arcsecond *)
(* (the resolution of the EXIF seconds field) is SubUnits units, so that a *)
(* coordinate can fall between two representable seconds values.  A float  *)
(* returned by the reader is held as sign and magnitude, as a float is.    *)
(***************************************************************************)
SubUnits == 2
MasPerDegree == 3600000
Unit == MasPerDegree * SubUnits      \* units in one degree

Abs(x) == IF x < 0 THEN -x ELSE x

Coord(deg, min, mas, sub) == ((deg * 60 + min) * 60000 + mas) * SubUnits + sub

Magnitudes(degs, top) ==
    { Coord(d, m, t, u) : d \in degs, m \in {0, 1, 59}, t \in {0, 1, 59999}, u \in 0..(SubUnits - 1) }
      \cup {top * Unit}
Signed(S) == S \cup { -x : x \in S }

\* valid latitudes, in [-90, 90] degrees, and longitudes, in [-180, 180]
Latitudes  == Signed(Magnitudes({0, 48, 89}, 90))
Longitudes == Signed(Magnitudes({0, 11, 179}, 180))

\* to_dms with the seconds numerator rounded to the nearest thousandth
to_dms_rounded(degree) ==
    LET a == Abs(degree)
        d == a \div Unit
        frac == a - d * Unit
        m == (frac * 60) \div Unit
        rem == frac * 60 - m * Unit
    IN  << <<d, 1>>, <<m, 1>>, <<(2 * rem + 60 * SubUnits) \div (2 * 60 * SubUnits), 1000>> >>

\* to_dms(degree): ((d, 1), (m, 1), (int(s * 1000), 1000)).
\* rem is ((degree - d) * 60 - m) in units of 1/Unit minute, so that
\* s * 1000 = rem * 60000 / Unit = rem / (60 * SubUnits).
to_dms(degree) ==
    LET a == Abs(degree)
        d == a \div Unit
        frac == a - d * Unit
        m == (frac * 60) \div Unit
        rem == frac * 60 - m * Unit
    IN  << <<d, 1>>, <<m, 1>>, <<rem \div (60 * SubUnits), 1000>> >>

\* the GPS IFD add_gps_to_image builds
gps_ifd(lat, lon) ==
    [ GPSLatitudeRef  |-> IF lat < 0 THEN "S" ELSE "N",
      GPSLatitude     |-> to_dms(lat),
      GPSLongitudeRef |-> IF lon < 0 THEN "W" ELSE "E",
      GPSLongitude    |-> to_dms(lon),
      GPSMapDatum     |-> "WGS-84" ]

\* float(vals[0]) + float(vals[1])/60 + float(vals[2])/3600, each value a
\* rational <<numerator, denominator>>; negated when ref is the negative
\* hemisphere
dms_to_decimal(vals, ref, negative_ref) ==
    LET mag == (vals[1][1] * Unit) \div vals[1][2]
               + (vals[2][1] * (Unit \div 60)) \div vals[2][2]
               + (vals[3][1] * (Unit \div 3600)) \div vals[3][2]
    IN  [neg |-> (ref = negative_ref), mag |-> mag]

\* add_gps_to_image succeeds: the image at output_path carries the GPS IFD
AddGpsToImage ==
    /\ dms_pc = "input"
    /\ exif_gps' = gps_ifd(in_coord[1], in_coord[2])
    /\ dms_pc' = "written"
    /\ UNCHANGED <<in_coord, out_coord>>

\* add_gps_to_image fails (piexif or PIL raise): nothing is written
AddGpsToImageFails ==
    /\ dms_pc = "input"
    /\ dms_pc' = "written"
    /\ UNCHANGED <<in_coord, exif_gps, out_coord>>

\* read_existing_gps_from_image on the output image
ReadExistingGps ==
    /\ dms_pc = "written"
    /\ dms_pc' = "read"
    /\ out_coord' =
         IF exif_gps = None THEN None
         ELSE << dms_to_decimal(exif_gps.GPSLatitude, exif_gps.GPSLatitudeRef, "S"),
                 dms_to_decimal(exif_gps.GPSLongitude, exif_gps.GPSLongitudeRef, "W") >>
    /\ UNCHANGED <<in_coord, exif_gps>>

InitDms ==
    /\ GpsIdle /\ HeatIdle
    /\ dms_pc = "input"
    /\ in_coord \in Latitudes \X Longitudes
    /\ exif_gps = None
    /\ out_coord = None

NextDms ==
    \/ AddGpsToImage /\ UNCHANGED <<gpsVars, heatVars>>
    \/ AddGpsToImageFails /\ UNCHANGED <<gpsVars, heatVars>>
    \/ ReadExistingGps /\ UNCHANGED <<gpsVars, heatVars>>

SpecDms == InitDms /\ [][NextDms]_vars

(***************************************************************************)
(* Properties of the EXIF round trip                                       *)
(***************************************************************************)
\* the whole milli-arcseconds of |x|, split by position into degrees,
\* minutes and thousandths of a second
Truncated(x) == Abs(x) \div SubUnits
ExpectedDms(x) ==
    << <<Truncated(x) \div MasPerDegree, 1>>,
       <<(Truncated(x) \div 60000) % 60, 1>>,
       <<Truncated(x) % 60000, 1000>> >>

RoundTripOk(x, vals, out) ==
    /\ out.neg = (x < 0)
    /\ Abs(out.mag - Abs(x)) * 1000 <= Unit
    /\ out.mag <= Abs(x)
    /\ vals = ExpectedDms(x)
    /\ vals[2][1] < 60
    /\ vals[3][1] < 60 * vals[3][2]

\* C7: a valid coordinate written by add_gps_to_image and read back by
\* read_existing_gps_from_image comes back within 1e-3 degree with the sign
\* it had, the seconds numerator being the truncation of the seconds to
\* three decimals, with minutes and seconds below 60.
C7_RoundTrip ==
    (dms_pc = "read" /\ exif_gps # None) =>
      /\ out_coord # None
      /\ RoundTripOk(in_coord[1], exif_gps.GPSLatitude, out_coord[1])
      /\ RoundTripOk(in_coord[2], exif_gps.GPSLongitude, out_coord[2])

\* a southern latitude that falls between two representable values, with
\* the largest minutes and seconds, and a western longitude, read back
C7_Witness ==
    /\ dms_pc = "read"
    /\ out_coord # None
    /\ in_coord[1] = -Coord(89, 59, 59999, SubUnits - 1)
    /\ out_coord[1] = [neg |-> TRUE, mag |-> Coord(89, 59, 59999, 0)]
    /\ in_coord[2] < 0
    /\ out_coord[2].neg

(***************************************************************************)
(* main.py : GPSDetectionHeatmap                                           *)
(***************************************************************************)
MaxDet     == 2    \* detections the model returns for one image, at most
MaxImages  == 2    \* images in one folder, at most
MaxRecords == 2    \* records held in detection_data, at most

ClassIds == {0, 1}
\* classes whose predictions carry the attribute class_name, and that name
NamedClassIds == {0}
ReadableName(class_id) == IF class_id = 0 THEN "cherry" ELSE "leaf"

\* A prediction: its class id, whether it has the attribute class_name, and
\* that attribute.
Predictions ==
    { [class_id |-> c, has_name |-> (c \in NamedClassIds),
       class_name |-> IF c \in NamedClassIds THEN ReadableName(c) ELSE ""] : c \in ClassIds }

RECURSIVE SeqsUpTo(_, _)
SeqsUpTo(S, n) ==
    IF n = 0 THEN {<<>>}
    ELSE LET shorter == SeqsUpTo(S, n - 1)
         IN  shorter \cup { Append(q, x) : q \in {t \in shorter : Len(t) = n - 1}, x \in S }

\* EXIF coordinate of the image at a path (1/60000 degree), when it has one
GpsOf(path) == <<-1312500 - path, -2743800 + 7 * path>>

\* What the collaborators give for one image file: the EXIF coordinate or
\* None (no GPS tags, or the reader failed), whether cv2.imread decodes it,
\* whether model.infer returns, and the predictions it returns.
ImageContents ==
    { [gps |-> FALSE, readable |-> TRUE,  infer_ok |-> TRUE,  predictions |-> <<>>],
      [gps |-> TRUE,  readable |-> FALSE, infer_ok |-> TRUE,  predictions |-> <<>>],
      [gps |-> TRUE,  readable |-> TRUE,  infer_ok |-> FALSE, predictions |-> <<>>] }
      \cup
    { [gps |-> TRUE, readable |-> TRUE, infer_ok |-> TRUE, predictions |-> p] :
        p \in SeqsUpTo(Predictions, MaxDet) }

Min(a, b) == IF a <= b THEN a ELSE b

\* glob results of at most n images: the image at position i has path i
Folders(n) == SeqsUpTo(ImageContents, Min(MaxImages, n))

\* read_gps_from_image
read_gps_from_image(image_path, image) == IF image.gps THEN GpsOf(image_path) ELSE None

\* detection_counts[class_name] = 1 : the tally is overwritten, not incremented
TallyOverwrite(detection_counts, class_name) ==
    IF class_name \in DOMAIN detection_counts
    THEN [detection_counts EXCEPT ![class_name] = 1]
    ELSE detection_counts @@ (class_name :> 1)

\* detection_counts[class_name] = detection_counts.get(class_name, 0) + 1
Tally(detection_counts, class_name) ==
    IF class_name \in DOMAIN detection_counts
    THEN [detection_counts EXCEPT ![class_name] = @ + 1]
    ELSE detection_counts @@ (class_name :> 1)

\* the class name the loop gives the detection with this class id: the name
\* of predictions[0] when predictions[0] has one, else class_<id>
LoopClassName(predictions, class_id) ==
    IF predictions[1].has_name THEN predictions[1].class_name
    ELSE "class_" \o ToString(class_id)

\* for class_id in detections.class_id: ... , from detection i on
RECURSIVE CountDetections(_, _, _)
CountDetections(predictions, i, detection_counts) ==
    IF i > Len(predictions) THEN detection_counts
    ELSE CountDetections(predictions, i + 1,
             Tally(detection_counts, LoopClassName(predictions, predictions[i].class_id)))

\* process_single_image: the record, or None when the image is skipped.
\* (The timestamp of the record is left out.)
process_single_image(image_path, image) ==
    LET gps_coords == read_gps_from_image(image_path, image) IN
    IF gps_coords = None THEN None
    ELSE IF ~image.readable THEN None
    ELSE IF ~image.infer_ok THEN None
    ELSE [ image_path       |-> image_path,
           latitude         |-> gps_coords[1],
           longitude        |-> gps_coords[2],
           total_detections |-> Len(image.predictions),
           detection_counts |-> CountDetections(image.predictions, 1, <<>>) ]

\* the loop of process_image_folder leaving at the first image that gives
\* no result
RECURSIVE FolderLoopAborting(_, _, _)
FolderLoopAborting(files, i, data) ==
    IF i > Len(files) THEN data
    ELSE LET result == process_single_image(i, files[i])
         IN  IF result # None THEN FolderLoopAborting(files, i + 1, Append(data, result))
             ELSE data

\* for image_path in image_files: ... , from image i on
RECURSIVE FolderLoop(_, _, _)
FolderLoop(files, i, data) ==
    IF i > Len(files) THEN data
    ELSE LET result == process_single_image(i, files[i])
         IN  FolderLoop(files, i + 1, IF result # None THEN Append(data, result) ELSE data)

\* process_image_folder(folder_path)
ProcessImageFolder(files) ==
    /\ Len(detection_data) + Len(files) <= MaxRecords
    /\ image_files' = files
    /\ detection_data' = IF files = <<>> THEN detection_data
                         ELSE FolderLoop(files, 1, detection_data)
    /\ heat_data' = <<>>
    /\ markers' = <<>>
    /\ last_op' = <<"folder">>

Max(a, b) == IF a >= b THEN a ELSE b

\* intensity = max(1, item['total_detections'])
BasicIntensity(item) == Max(1, item.total_detections)

\* create_basic_heatmap
CreateBasicHeatmap ==
    /\ last_op' = <<"basic">>
    /\ image_files' = <<>>
    /\ UNCHANGED detection_data
    /\ IF detection_data = <<>>
       THEN heat_data' = <<>> /\ markers' = <<>>
       ELSE /\ heat_data' = [i \in 1..Len(detection_data) |->
                               <<detection_data[i].latitude, detection_data[i].longitude,
                                 BasicIntensity(detection_data[i])>>]
            /\ markers' = [i \in 1..Len(detection_data) |->
                               [location |-> <<detection_data[i].latitude, detection_data[i].longitude>>,
                                radius   |-> 5 + detection_data[i].total_detections]]

\* target_class=None, the default of create_class_specific_heatmap
NoClass == "<None>"

\* `if target_class:` : None and the empty string are false
Truthy(target_class) == target_class # NoClass /\ target_class # ""

\* dict.get(key, 0)
Get(dict, key) == IF key \in DOMAIN dict THEN dict[key] ELSE 0

\* intensity = item['total_detections'] whatever the target class
ClassIntensityTotal(item, target_class) == item.total_detections

\* item['detection_counts'].get(target_class, 0) if target_class else item['total_detections']
ClassIntensity(item, target_class) ==
    IF Truthy(target_class) THEN Get(item.detection_counts, target_class)
    ELSE item.total_detections

\* the filtering loops of create_class_specific_heatmap, from record i on
RECURSIVE HeatLoop(_, _, _, _)
HeatLoop(data, target_class, i, acc) ==
    IF i > Len(data) THEN acc
    ELSE LET intensity == ClassIntensity(data[i], target_class)
         IN  HeatLoop(data, target_class, i + 1,
                 IF intensity > 0
                 THEN Append(acc, <<data[i].latitude, data[i].longitude, intensity>>)
                 ELSE acc)

RECURSIVE MarkerLoop(_, _, _, _)
MarkerLoop(data, target_class, i, acc) ==
    IF i > Len(data) THEN acc
    ELSE LET intensity == ClassIntensity(data[i], target_class)
         IN  MarkerLoop(data, target_class, i + 1,
                 IF intensity > 0
                 THEN Append(acc, [location |-> <<data[i].latitude, data[i].longitude>>,
                                   radius   |-> 3 + intensity * 2])
                 ELSE acc)

\* classes a caller asks a heatmap for; "weed" is never detected
TargetClasses == {"cherry", "class_1", "weed"}

\* create_class_specific_heatmap(target_class)
CreateClassSpecificHeatmap(target_class) ==
    /\ last_op' = <<"class", target_class>>
    /\ image_files' = <<>>
    /\ UNCHANGED detection_data
    /\ IF detection_data = <<>>
       THEN heat_data' = <<>> /\ markers' = <<>>
       ELSE LET heat == HeatLoop(detection_data, target_class, 1, <<>>)
            IN  /\ heat_data' = heat
                /\ markers' = IF heat # <<>>
                              THEN MarkerLoop(detection_data, target_class, 1, <<>>)
                              ELSE <<>>

InitHeat == GpsIdle /\ DmsIdle /\ HeatIdle

NextHeat ==
    \/ (\E files \in Folders(MaxRecords - Len(detection_data)) : ProcessImageFolder(files))
           /\ UNCHANGED <<gpsVars, dmsVars>>
    \/ CreateBasicHeatmap /\ UNCHANGED <<gpsVars, dmsVars>>
    \/ (\E t \in TargetClasses \cup {NoClass} : CreateClassSpecificHeatmap(t))
           /\ UNCHANGED <<gpsVars, dmsVars>>

SpecHeat == InitHeat /\ [][NextHeat]_vars

(***************************************************************************)
(* Properties of GPSDetectionHeatmap                                       *)
(***************************************************************************)
\* an image that has a coordinate, decodes and is inferred
Good(image) == image.gps /\ image.readable /\ image.infer_ok

\* the class name of a detection itself
OwnName(p) == IF p.has_name THEN p.class_name ELSE "class_" \o ToString(p.class_id)
AllNames == {"cherry", "leaf", "class_0", "class_1"}
OwnCount(predictions, c) ==
    Cardinality({ i \in 1..Len(predictions) : OwnName(predictions[i]) = c })

\* the records the last process_image_folder call appended
NewRecords ==
    SubSeq(detection_data,
           Len(detection_data) - Len(SelectSeq(image_files, Good)) + 1,
           Len(detection_data))

\* C2: in every record produced, detection_counts[c] is the number of
\* detections of the image whose own class name is c.
C2_PerClassCounts ==
    last_op = <<"folder">> =>
      LET good == SelectSeq(image_files, Good)
      IN  \A k \in 1..Len(good) : \A c \in AllNames :
              Get(NewRecords[k].detection_counts, c) = OwnCount(good[k].predictions, c)

RECURSIVE SumOver(_, _)
SumOver(f, keys) ==
    IF keys = {} THEN 0
    ELSE LET k == CHOOSE x \in keys : TRUE
         IN  f[k] + SumOver(f, keys \ {k})

\* C3: every record in detection_data has total_detections equal to the sum
\* of the values of its detection_counts.
C3_TotalIsSum ==
    \A i \in 1..Len(detection_data) :
        detection_data[i].total_detections
          = SumOver(detection_data[i].detection_counts,
                    DOMAIN detection_data[i].detection_counts)

\* a record with no detection and an empty mapping, next to a record whose
\* two detections fall under two keys
C3_Witness ==
    /\ Len(detection_data) = 2
    /\ detection_data[1].total_detections = 0
    /\ detection_data[1].detection_counts = <<>>
    /\ detection_data[2].total_detections = 2
    /\ Cardinality(DOMAIN detection_data[2].detection_counts) = 2

\* C4: every unfiltered weighted-point list (create_basic_heatmap, and
\* create_class_specific_heatmap without a target class) of a non-empty
\* collection has one point per record, with intensity max(1, total).
C4_UnfilteredShowsAll ==
    (last_op \in {<<"basic">>, <<"class", NoClass>>} /\ detection_data # <<>>) =>
      heat_data = [i \in 1..Len(detection_data) |->
                     <<detection_data[i].latitude, detection_data[i].longitude,
                       Max(1, detection_data[i].total_detections)>>]

HasClass(r, c) == c \in DOMAIN r.detection_counts /\ r.detection_counts[c] > 0

C6_FolderAppends ==
    [][last_op' = <<"folder">> =>
         LET good == { i \in 1..Len(image_files') : Good(image_files'[i]) }
             n    == Len(detection_data)
         IN  /\ Len(detection_data') = n + Cardinality(good)
             /\ SubSeq(detection_data', 1, n) = detection_data
             /\ \A i \in good :
                   LET k == n + Cardinality({ j \in good : j <= i })
                   IN  /\ detection_data'[k].image_path = i
                       /\ detection_data'[k].total_detections
                             = Len(image_files'[i].predictions)
       ]_vars

\* a folder whose first image fails to decode and whose second image is
\* good: the one record is that of the second image
C6_Witness ==
    /\ last_op = <<"folder">>
    /\ Len(image_files) = 2
    /\ ~image_files[1].readable
    /\ Good(image_files[2])
    /\ Len(detection_data) = 1
    /\ detection_data[1].image_path = 2

====
